---- MODULE Spec2Model ----
(***************************************************************************)
(* ShopManage (src/app.js): the product list kept in memory               *)
(* (localProducts), its copy in localStorage under 'shopManageProducts',  *)
(* the rendered cards, and the asynchronous handlers fetchProducts,       *)
(* addProduct, updateProduct and deleteProduct.  Every await in the code  *)
(* is a point where another handler may run; the code between two awaits  *)
(* is one action.                                                         *)
(***************************************************************************)
EXTENDS Integers, Sequences, FiniteSets, TLC

VARIABLES
    storage,            \* localStorage value under 'shopManageProducts'
    localProducts,      \* let localProducts
    editingProductId,   \* let editingProductId
    fetchPc,            \* position of fetchProducts
    listStatus,         \* status of the list response while its body is read
    banner,             \* non-card content of #product-container
    cards,              \* product cards of #product-container, in DOM order
    productCount,       \* text of #productCount
    notice,             \* last Swal.fire notification
    modalOpen,          \* #addProductModal is shown
    inflight,           \* fetch calls of add/update/delete awaiting a response
    listRequests,       \* list requests sent in this page load
    session,            \* page loads so far
    steps,              \* requests issued and reloads made by the user so far
    clean,              \* no load error and no failed operation in this page load
    prevEnd,            \* localProducts when the previous page was left
    catalog             \* number of products the remote API has to list

vars == << storage, localProducts, editingProductId, fetchPc, listStatus, banner,
           cards, productCount, notice, modalOpen, inflight, listRequests,
           session, steps, clean, prevEnd, catalog >>

-----------------------------------------------------------------------------
(* Bounds *)

ListLimit    == 2    \* most records in a list response (the code asks for limit=10)
MaxInflight  == 2    \* overlapping add/update/delete requests
MaxSteps     == 2    \* requests and reloads over the whole run

-----------------------------------------------------------------------------
(* JavaScript values *)

null == 0                                   \* editingProductId = null
baselineId == 101                           \* id of the first product of an empty list

Num(n)    == << "number", n >>
NaN       == << "NaN", 0 >>                 \* parseFloat of a non-numeric string
JsonNull  == << "null", 0 >>                \* JSON null read back by JSON.parse

Arr(s)    == [type |-> "array", items |-> s]
Undefined == [type |-> "undefined", items |-> << >>]
NullValue == [type |-> "null", items |-> << >>]
Thrown    == [type |-> "throw", items |-> << >>]

(* localStorage values: no entry, the JSON text of an array, or the text    *)
(* "undefined" that setItem stores when handed the value undefined.         *)
Absent        == [kind |-> "absent", json |-> << >>]
JsonText(j)   == [kind |-> "json", json |-> j]
UndefinedText == [kind |-> "undefined", json |-> << >>]

Product(id, f) ==
    [id |-> id, title |-> f.title, description |-> f.description,
     price |-> f.price, category |-> f.category, thumbnail |-> f.thumbnail]

Ids(s) == { s[i].id : i \in DOMAIN s }
IdSeq(s) == [i \in DOMAIN s |-> s[i].id]

RECURSIVE MaxOf(_)
MaxOf(S) ==
    IF S = {} THEN 0
    ELSE LET x == CHOOSE y \in S : TRUE
             m == MaxOf(S \ {x})
         IN IF x > m THEN x ELSE m

(* The first record removed, whatever its identifier. *)
Filter_DropFirst(s, id) == IF s = << >> THEN << >> ELSE Tail(s)

RECURSIVE Filter(_, _)
Filter(s, id) ==
    IF s = << >> THEN << >>
    ELSE IF Head(s).id # id THEN << Head(s) >> \o Filter(Tail(s), id)
    ELSE Filter(Tail(s), id)

RECURSIVE RemoveFirst(_, _)
RemoveFirst(s, x) ==
    IF s = << >> THEN << >>
    ELSE IF Head(s) = x THEN Tail(s)
    ELSE << Head(s) >> \o RemoveFirst(Tail(s), x)

(* The first record taken when none has the identifier. *)
FindIndex_OrFirst(s, id) ==
    IF \E i \in DOMAIN s : s[i].id = id
    THEN CHOOSE i \in DOMAIN s : s[i].id = id /\ \A j \in 1..(i-1) : s[j].id # id
    ELSE IF s # << >> THEN 1 ELSE -1

FindIndex(s, id) ==
    IF \E i \in DOMAIN s : s[i].id = id
    THEN CHOOSE i \in DOMAIN s : s[i].id = id /\ \A j \in 1..(i-1) : s[j].id # id
    ELSE -1

(* The record put in front instead of at the end. *)
push_Front(items, record) == << record >> \o items

push(items, record) == Append(items, record)

(* The old record removed and the new one appended, as is done with the card. *)
ReplaceAt_MoveToEnd(items, index, record) ==
    [i \in 1..Len(items) |->
        IF i < index THEN items[i]
        ELSE IF i < Len(items) THEN items[i + 1]
        ELSE record]

ReplaceAt(items, index, record) == [items EXCEPT ![index] = record]

(* The loading spinner counted as a card. *)
updateProductCount_CountsAll(cardSeq) == Len(cardSeq) + 1

updateProductCount(cardSeq) == Len(cardSeq)

-----------------------------------------------------------------------------
(* JSON.stringify / JSON.parse / localStorage *)

StringifyPrice(p) == IF p = NaN THEN JsonNull ELSE p

StringifyProduct(r) == [r EXCEPT !.price = StringifyPrice(r.price)]

Stringify(v) ==
    IF v.type = "undefined" THEN UndefinedText
    ELSE JsonText([i \in DOMAIN v.items |-> StringifyProduct(v.items[i])])

(* The parsed array in reverse order. *)
Parse_Reversed(text) ==
    IF text.kind = "json"
    THEN Arr([i \in DOMAIN text.json |-> text.json[Len(text.json) + 1 - i]])
    ELSE Thrown

Parse(text) ==
    IF text.kind = "json" THEN Arr(text.json) ELSE Thrown

(* The value read under another key than the one written. *)
getLocalProducts_WrongKey(st) == NullValue

getLocalProducts(st) ==
    IF st.kind = "absent" THEN NullValue ELSE Parse(st)

(* The collection kept in memory only, the localStorage write left out. *)
saveLocalProducts_MemoryOnly(products) ==
    /\ localProducts' = products
    /\ UNCHANGED storage

saveLocalProducts(products) ==
    /\ storage' = Stringify(products)
    /\ localProducts' = products

-----------------------------------------------------------------------------
(* The remote API and the form *)

NetworkError == 0                           \* fetch rejects: no response at all
Statuses     == {200, 201, 500}             \* response.status
Outcomes     == {NetworkError} \cup Statuses

Ok(status) == status >= 200 /\ status <= 299            \* response.ok

(* Body of the list response: the product page, a JSON error object       *)
(* without a products field, or text that is not JSON.                    *)
ListBodies(status) ==
    IF Ok(status) THEN {"products"} ELSE {"errorObject", "notJson"}

ApiFields == [title |-> "Phone", description |-> "d", price |-> Num(10),
              category |-> "c", thumbnail |-> "u"]

ApiProducts == [i \in 1..catalog |-> Product(i, ApiFields)]

(* Text typed into #productPrice, and parseFloat of it. *)
PriceTexts == {"2", ""}

parseFloat(text) == IF text = "2" THEN Num(2) ELSE NaN

FormFields(priceText) ==
    [title |-> "Pen", description |-> "d", price |-> parseFloat(priceText),
     category |-> "office", thumbnail |-> "u"]

NoFields == [title |-> "", description |-> "", price |-> Num(0),
             category |-> "", thumbnail |-> ""]

Idle == [op |-> "idle", id |-> null, fields |-> NoFields, seq |-> 0]

Slots == 1..MaxInflight

FreeSlots == { k \in Slots : inflight[k].op = "idle" }

Busy == { k \in Slots : inflight[k].op # "idle" }

Size == IF localProducts.type = "array" THEN Len(localProducts.items) ELSE 0

(* The request sent once for every free slot. *)
Issue_Duplicated(op, id, fields) ==
    /\ FreeSlots # {}
    /\ steps < MaxSteps
    /\ inflight' = [k \in Slots |->
                       IF k \in FreeSlots
                       THEN [op |-> op, id |-> id, fields |-> fields, seq |-> steps + 1]
                       ELSE inflight[k]]
    /\ steps' = steps + 1

Issue(op, id, fields) ==
    /\ FreeSlots # {}
    /\ steps < MaxSteps
    /\ LET k == CHOOSE f \in FreeSlots : \A g \in FreeSlots : f <= g
       IN inflight' = [inflight EXCEPT ![k] =
                          [op |-> op, id |-> id, fields |-> fields, seq |-> steps + 1]]
    /\ steps' = steps + 1

(* Identifiers a card can carry within the bounds. *)
CardIds == 1..(baselineId + MaxSteps)

Phase ==
    IF fetchPc = "notStarted" THEN "Uninitialized"
    ELSE IF fetchPc = "done" THEN "Ready"
    ELSE "Hydrating"

-----------------------------------------------------------------------------
(* fetchProducts *)

(* The length test of the cache check left out. *)
UseCache_NoLengthTest(stored) == stored.type = "array"

UseCache(stored) == stored.type = "array" /\ Len(stored.items) > 0

(* DOMContentLoaded: fetchProducts runs up to its first await. *)
DOMContentLoaded ==
    /\ fetchPc = "notStarted"
    /\ LET stored == getLocalProducts(storage)
       IN IF stored.type = "throw"
          THEN /\ banner' = "error"
               /\ cards' = << >>
               /\ fetchPc' = "done"
               /\ clean' = FALSE
               /\ UNCHANGED << localProducts, productCount, listRequests >>
          ELSE IF UseCache(stored)
          THEN /\ localProducts' = stored
               /\ banner' = "none"
               /\ cards' = IdSeq(stored.items)
               /\ productCount' = updateProductCount(cards')
               /\ fetchPc' = "done"
               /\ UNCHANGED << listRequests, clean >>
          ELSE /\ banner' = "spinner"
               /\ cards' = << >>
               /\ fetchPc' = "awaitFetch"
               /\ listRequests' = listRequests + 1
               /\ UNCHANGED << localProducts, productCount, clean >>
    /\ UNCHANGED << storage, editingProductId, listStatus, notice, modalOpen,
                    inflight, session, steps, prevEnd, catalog >>

(* The catch branch shows the error but fetchProducts never returns. *)
LoadError_StaysLoading ==
    /\ banner' = "error"
    /\ cards' = << >>
    /\ clean' = FALSE
    /\ UNCHANGED fetchPc

LoadError ==
    /\ banner' = "error"
    /\ cards' = << >>
    /\ fetchPc' = "done"
    /\ clean' = FALSE

(* await fetch(...) settles: a rejection, or a response with a status. *)
ListFetchSettles(outcome) ==
    /\ fetchPc = "awaitFetch"
    /\ IF outcome = NetworkError
       THEN /\ LoadError
            /\ UNCHANGED listStatus
       ELSE /\ fetchPc' = "awaitJson"
            /\ listStatus' = outcome
            /\ UNCHANGED << banner, cards, clean >>
    /\ UNCHANGED << storage, localProducts, editingProductId, productCount, notice,
                    modalOpen, inflight, listRequests, session,
                    steps, prevEnd, catalog >>

(* data.products of the parsed body. *)
DataProducts(body) == IF body = "products" THEN Arr(ApiProducts) ELSE Undefined

(* await response.json() settles; then saveLocalProducts(data.products)   *)
(* and the rendering loop.                                                *)
ListJsonSettles(body) ==
    /\ fetchPc = "awaitJson"
    /\ body \in ListBodies(listStatus)
    /\ listStatus' = 0
    /\ IF body = "notJson"
       THEN /\ LoadError
            /\ UNCHANGED << storage, localProducts, productCount >>
       ELSE LET products == DataProducts(body)
            IN /\ saveLocalProducts(products)
               /\ IF products.type = "array"
                  THEN /\ banner' = "none"
                       /\ cards' = IdSeq(products.items)
                       /\ productCount' = updateProductCount(cards')
                       /\ fetchPc' = "done"
                       /\ UNCHANGED clean
                  ELSE /\ LoadError
                       /\ UNCHANGED productCount
    /\ UNCHANGED << editingProductId, notice, modalOpen, inflight, listRequests,
                    session, steps, prevEnd, catalog >>

-----------------------------------------------------------------------------
(* The modal, editProduct and the submit listener *)

(* The Add Product button shows the modal; the form is inside it. *)
OpenAddModal ==
    /\ fetchPc # "notStarted"
    /\ ~modalOpen
    /\ modalOpen' = TRUE
    /\ UNCHANGED << storage, localProducts, editingProductId, fetchPc, listStatus,
                    banner, cards, productCount, notice, inflight, listRequests,
                    session, steps, clean, prevEnd, catalog >>

(* The record fetched from the server instead of looked up in memory. *)
editProduct_FromNetwork(productId) ==
    /\ ~modalOpen
    /\ \E i \in DOMAIN cards : cards[i] = productId
    /\ Issue("update", productId, NoFields)
    /\ editingProductId' = productId
    /\ modalOpen' = TRUE
    /\ UNCHANGED << storage, localProducts, fetchPc, listStatus, banner, cards,
                    productCount, notice, listRequests, session,
                    clean, prevEnd, catalog >>

(* The Edit button of the card of productId. *)
editProduct(productId) ==
    /\ ~modalOpen
    /\ \E i \in DOMAIN cards : cards[i] = productId
    /\ IF localProducts.type # "array"
       THEN /\ notice' = "edit:Oops..."
            /\ UNCHANGED << editingProductId, modalOpen >>
       ELSE IF FindIndex(localProducts.items, productId) = -1
       THEN /\ notice' = "edit:Product Not Found"
            /\ UNCHANGED << editingProductId, modalOpen >>
       ELSE /\ editingProductId' = productId
            /\ modalOpen' = TRUE
            /\ UNCHANGED notice
    /\ UNCHANGED << storage, localProducts, fetchPc, listStatus, banner, cards,
                    productCount, inflight, listRequests, session,
                    steps, clean, prevEnd, catalog >>

(* The modal closed without the reset of the editing mode. *)
ModalHidden_KeepsMode ==
    /\ modalOpen
    /\ modalOpen' = FALSE
    /\ UNCHANGED << storage, localProducts, editingProductId, fetchPc, listStatus,
                    banner, cards, productCount, notice, inflight, listRequests,
                    session, steps, clean, prevEnd, catalog >>

(* hidden.bs.modal: the user closes the modal without a successful submit. *)
ModalHidden ==
    /\ modalOpen
    /\ modalOpen' = FALSE
    /\ editingProductId' = null
    /\ UNCHANGED << storage, localProducts, fetchPc, listStatus, banner, cards,
                    productCount, notice, inflight, listRequests, session, steps, clean, prevEnd, catalog >>

(* The submit listener without the test of editingProductId. *)
Submit_AlwaysAdd(priceText) ==
    /\ fetchPc # "notStarted"
    /\ modalOpen
    /\ Issue("add", null, FormFields(priceText))
    /\ UNCHANGED << storage, localProducts, editingProductId, fetchPc, listStatus,
                    banner, cards, productCount, notice, modalOpen, listRequests,
                    session, clean, prevEnd, catalog >>

(* submit listener: updateProduct or addProduct runs up to its await. *)
Submit(priceText) ==
    /\ fetchPc # "notStarted"
    /\ modalOpen
    /\ IF editingProductId # null
       THEN Issue("update", editingProductId, FormFields(priceText))
       ELSE Issue("add", null, FormFields(priceText))
    /\ UNCHANGED << storage, localProducts, editingProductId, fetchPc, listStatus,
                    banner, cards, productCount, notice, modalOpen, listRequests,
                    session, clean, prevEnd, catalog >>

(* The Delete button of the card of productId: deleteProduct up to its await. *)
ClickDelete(productId) ==
    /\ ~modalOpen
    /\ \E i \in DOMAIN cards : cards[i] = productId
    /\ Issue("delete", productId, NoFields)
    /\ UNCHANGED << storage, localProducts, editingProductId, fetchPc, listStatus,
                    banner, cards, productCount, notice, modalOpen, listRequests,
                    session, clean, prevEnd, catalog >>

-----------------------------------------------------------------------------
(* addProduct, updateProduct, deleteProduct after their await *)

(* addProduct given the test of updateProduct and deleteProduct. *)
AddAccepted_Only200(status) == status = 200

AddAccepted(status) == Ok(status)

(* The status test of updateProduct left out. *)
UpdateAccepted_AnyResponse(status) == TRUE

UpdateAccepted(status) == status = 200

(* The status test of deleteProduct left out. *)
DeleteAccepted_AnyResponse(status) == TRUE

DeleteAccepted(status) == status = 200

(* The new id taken from the number of records instead of the largest id. *)
nextId_FromLength(items) == Len(items) + 1

nextId(items) ==
    IF Len(items) > 0 THEN MaxOf(Ids(items)) + 1 ELSE baselineId

(* The failure swallowed without a notification. *)
Failed_Silent(text) ==
    /\ clean' = FALSE
    /\ UNCHANGED << notice, storage, localProducts, editingProductId, cards,
                    productCount, modalOpen >>

Failed(text) ==
    /\ notice' = text
    /\ clean' = FALSE
    /\ UNCHANGED << storage, localProducts, editingProductId, cards, productCount,
                    modalOpen >>

(* The new record appended to the collection as it was listed at startup  *)
(* instead of the collection as it is when the response is processed.     *)
AddSettles_StaleCollection(k, outcome) ==
    /\ inflight[k].op = "add"
    /\ inflight' = [inflight EXCEPT ![k] = Idle]
    /\ IF outcome = NetworkError
       THEN Failed("add:Error")
       ELSE IF ~AddAccepted(outcome)
       THEN Failed("add:Add Failed")
       ELSE IF localProducts.type # "array"
       THEN Failed("add:Error")
       ELSE LET newId == nextId(ApiProducts)
                newProduct == Product(newId, inflight[k].fields)
                products == Arr(push(ApiProducts, newProduct))
            IN /\ saveLocalProducts(products)
               /\ cards' = Append(cards, newId)
               /\ productCount' = updateProductCount(cards')
               /\ notice' = "add:Success!"
               /\ modalOpen' = FALSE
               /\ editingProductId' = null
               /\ UNCHANGED clean
    /\ UNCHANGED << fetchPc, listStatus, banner, listRequests, session, steps, prevEnd, catalog >>

AddSettles(k, outcome) ==
    /\ inflight[k].op = "add"
    /\ inflight' = [inflight EXCEPT ![k] = Idle]
    /\ IF outcome = NetworkError
       THEN Failed("add:Error")
       ELSE IF ~AddAccepted(outcome)
       THEN Failed("add:Add Failed")
       ELSE IF localProducts.type # "array"
       THEN Failed("add:Error")
       ELSE LET newId == nextId(localProducts.items)
                newProduct == Product(newId, inflight[k].fields)
                products == Arr(push(localProducts.items, newProduct))
            IN /\ saveLocalProducts(products)
               /\ cards' = Append(cards, newId)
               /\ productCount' = updateProductCount(cards')
               /\ notice' = "add:Success!"
               /\ modalOpen' = FALSE
               /\ editingProductId' = null
               /\ UNCHANGED clean
    /\ UNCHANGED << fetchPc, listStatus, banner, listRequests, session, steps, prevEnd, catalog >>

UpdateSettles(k, outcome) ==
    /\ inflight[k].op = "update"
    /\ inflight' = [inflight EXCEPT ![k] = Idle]
    /\ IF outcome = NetworkError
       THEN Failed("update:Error")
       ELSE IF ~UpdateAccepted(outcome)
       THEN Failed("update:Update Failed")
       ELSE IF localProducts.type # "array"
       THEN Failed("update:Error")
       ELSE LET productId == inflight[k].id
                productIndex == FindIndex(localProducts.items, productId)
            IN /\ IF productIndex # -1
                  THEN LET products == Arr(ReplaceAt(localProducts.items, productIndex,
                                                 Product(productId, inflight[k].fields)))
                       IN /\ saveLocalProducts(products)
                          /\ cards' = Append(RemoveFirst(cards, productId), productId)
                  ELSE UNCHANGED << localProducts, storage, cards >>
               /\ notice' = "update:Success!"
               /\ modalOpen' = FALSE
               /\ editingProductId' = null
               /\ UNCHANGED << productCount, clean >>
    /\ UNCHANGED << fetchPc, listStatus, banner, listRequests, session, steps, prevEnd, catalog >>

DeleteSettles(k, outcome) ==
    /\ inflight[k].op = "delete"
    /\ inflight' = [inflight EXCEPT ![k] = Idle]
    /\ IF outcome = NetworkError
       THEN Failed("delete:Error")
       ELSE IF ~DeleteAccepted(outcome)
       THEN Failed("delete:Delete Failed")
       ELSE IF localProducts.type # "array"
       THEN Failed("delete:Error")
       ELSE LET productId == inflight[k].id
                products == Arr(Filter(localProducts.items, productId))
            IN /\ saveLocalProducts(products)
               /\ cards' = RemoveFirst(cards, productId)
               /\ productCount' = updateProductCount(cards')
               /\ notice' = "delete:Deleted!"
               /\ UNCHANGED << editingProductId, modalOpen, clean >>
    /\ UNCHANGED << fetchPc, listStatus, banner, listRequests, session, steps, prevEnd, catalog >>

-----------------------------------------------------------------------------
(* Page load and reload *)

EndOfSession ==
    IF clean /\ fetchPc = "done" /\ Busy = {}
    THEN localProducts
    ELSE [type |-> "unknown", items |-> << >>]

Reload ==
    /\ steps < MaxSteps
    /\ session' = session + 1
    /\ steps' = steps + 1
    /\ prevEnd' = EndOfSession
    /\ localProducts' = Arr(<< >>)
    /\ editingProductId' = null
    /\ fetchPc' = "notStarted"
    /\ listStatus' = 0
    /\ banner' = "none"
    /\ cards' = << >>
    /\ productCount' = 0
    /\ notice' = "none"
    /\ modalOpen' = FALSE
    /\ inflight' = [k \in Slots |-> Idle]
    /\ listRequests' = 0
    /\ clean' = TRUE
    /\ UNCHANGED << storage, catalog >>

Init ==
    /\ storage = Absent
    /\ localProducts = Arr(<< >>)
    /\ editingProductId = null
    /\ fetchPc = "notStarted"
    /\ listStatus = 0
    /\ banner = "none"
    /\ cards = << >>
    /\ productCount = 0
    /\ notice = "none"
    /\ modalOpen = FALSE
    /\ inflight = [k \in Slots |-> Idle]
    /\ listRequests = 0
    /\ session = 0
    /\ steps = 0
    /\ clean = TRUE
    /\ prevEnd = [type |-> "unknown", items |-> << >>]
    /\ catalog \in 1..ListLimit

Next ==
    \/ DOMContentLoaded
    \/ \E outcome \in Outcomes : ListFetchSettles(outcome)
    \/ \E body \in {"products", "errorObject", "notJson"} : ListJsonSettles(body)
    \/ OpenAddModal
    \/ \E productId \in CardIds : editProduct(productId)
    \/ ModalHidden
    \/ \E priceText \in PriceTexts : Submit(priceText)
    \/ \E productId \in CardIds : ClickDelete(productId)
    \/ \E k \in Slots, outcome \in Outcomes : AddSettles(k, outcome)
    \/ \E k \in Slots, outcome \in Outcomes : UpdateSettles(k, outcome)
    \/ \E k \in Slots, outcome \in Outcomes : DeleteSettles(k, outcome)
    \/ Reload

Spec == Init /\ [][Next]_vars

(* Every request sent is eventually answered or fails, the body of a     *)
(* response is eventually read or found unreadable, and a loaded page    *)
(* fires DOMContentLoaded.                                               *)
Respond(k) ==
    \E outcome \in Outcomes :
        \/ AddSettles(k, outcome)
        \/ UpdateSettles(k, outcome)
        \/ DeleteSettles(k, outcome)

Fairness ==
    /\ WF_vars(DOMContentLoaded)
    /\ WF_vars(\E outcome \in Outcomes : ListFetchSettles(outcome))
    /\ WF_vars(\E body \in {"products", "errorObject", "notJson"} : ListJsonSettles(body))
    /\ \A k \in Slots : WF_vars(Respond(k))

FairSpec == Init /\ [][Next]_vars /\ Fairness

-----------------------------------------------------------------------------
(* localStorage.setItem raising (the storage refuses the write)           *)

(* addProduct: the record is pushed, then saveLocalProducts raises. *)
AddRefused(k, outcome) ==
    /\ inflight[k].op = "add"
    /\ outcome # NetworkError
    /\ AddAccepted(outcome)
    /\ localProducts.type = "array"
    /\ inflight' = [inflight EXCEPT ![k] = Idle]
    /\ LET newId == nextId(localProducts.items)
           newProduct == Product(newId, inflight[k].fields)
       IN localProducts' = Arr(push(localProducts.items, newProduct))
    /\ notice' = "add:Error"
    /\ clean' = FALSE
    /\ UNCHANGED << storage, editingProductId, fetchPc, listStatus, banner, cards,
                    productCount, modalOpen, listRequests, session, steps,
                    prevEnd, catalog >>

(* updateProduct: the record is replaced, then saveLocalProducts raises. *)
UpdateRefused(k, outcome) ==
    /\ inflight[k].op = "update"
    /\ outcome # NetworkError
    /\ UpdateAccepted(outcome)
    /\ localProducts.type = "array"
    /\ FindIndex(localProducts.items, inflight[k].id) # -1
    /\ inflight' = [inflight EXCEPT ![k] = Idle]
    /\ LET productId == inflight[k].id
           productIndex == FindIndex(localProducts.items, productId)
       IN localProducts' = Arr(ReplaceAt(localProducts.items, productIndex,
                                         Product(productId, inflight[k].fields)))
    /\ notice' = "update:Error"
    /\ clean' = FALSE
    /\ UNCHANGED << storage, editingProductId, fetchPc, listStatus, banner, cards,
                    productCount, modalOpen, listRequests, session, steps,
                    prevEnd, catalog >>

(* deleteProduct: the filtered array is assigned, then saveLocalProducts raises. *)
DeleteRefused(k, outcome) ==
    /\ inflight[k].op = "delete"
    /\ outcome # NetworkError
    /\ DeleteAccepted(outcome)
    /\ localProducts.type = "array"
    /\ inflight' = [inflight EXCEPT ![k] = Idle]
    /\ localProducts' = Arr(Filter(localProducts.items, inflight[k].id))
    /\ notice' = "delete:Error"
    /\ clean' = FALSE
    /\ UNCHANGED << storage, editingProductId, fetchPc, listStatus, banner, cards,
                    productCount, modalOpen, listRequests, session, steps,
                    prevEnd, catalog >>

(* fetchProducts: saveLocalProducts raises before it assigns localProducts. *)
ListRefused(body) ==
    /\ fetchPc = "awaitJson"
    /\ body \in ListBodies(listStatus)
    /\ body # "notJson"
    /\ listStatus' = 0
    /\ LoadError
    /\ UNCHANGED << storage, localProducts, productCount, editingProductId, notice,
                    modalOpen, inflight, listRequests, session, steps, prevEnd,
                    catalog >>

NextStorageFull ==
    \/ Next
    \/ \E k \in Slots, outcome \in Outcomes : AddRefused(k, outcome)
    \/ \E k \in Slots, outcome \in Outcomes : UpdateRefused(k, outcome)
    \/ \E k \in Slots, outcome \in Outcomes : DeleteRefused(k, outcome)
    \/ \E body \in {"products", "errorObject"} : ListRefused(body)

SpecStorageFull == Init /\ [][NextStorageFull]_vars

TypeOK ==
    /\ storage.kind \in {"absent", "json", "undefined"}
    /\ localProducts.type \in {"array", "undefined"}
    /\ fetchPc \in {"notStarted", "awaitFetch", "awaitJson", "done"}
    /\ modalOpen \in BOOLEAN

-----------------------------------------------------------------------------
(* Properties *)

CacheNonEmpty == storage.kind = "json" /\ Len(storage.json) > 0

CacheAbsentOrEmpty ==
    \/ storage.kind = "absent"
    \/ storage.kind = "json" /\ Len(storage.json) = 0

(* A step in which a request of add, update or delete settles. *)
Settled == session' = session /\ Busy' # Busy /\ Busy' \subseteq Busy

(* C1: at startup a cache holding a non-empty collection means no list    *)
(* request is sent; an absent or empty cache means exactly one is sent,   *)
(* and none is sent later in the same page load.                          *)
C1_HydrationPolicy ==
    [][ /\ (fetchPc = "notStarted" /\ fetchPc' # "notStarted") =>
              /\ CacheNonEmpty => listRequests' = 0
              /\ CacheAbsentOrEmpty => listRequests' = 1
        /\ (fetchPc # "notStarted" /\ fetchPc' # "notStarted") =>
              listRequests' = listRequests ]_vars

(* A second page load that hydrated from the cache without a request. *)
C1_Witness ==
    /\ session = 1
    /\ steps = 1
    /\ fetchPc = "done"
    /\ listRequests = 0
    /\ Size = catalog

(* C2: after a successful add, update or delete the cache is the          *)
(* serialized whole collection, and every cache write is a full replace   *)
(* by the serialized collection.                                          *)
C2_CacheIsWholeCollection ==
    [][ /\ (Settled /\ notice' \in {"add:Success!", "update:Success!", "delete:Deleted!"})
              => storage' = Stringify(localProducts')
        /\ storage' # storage => storage' = Stringify(localProducts') ]_vars

(* A successful add, a price that serializes differently, in the cache. *)
C2_Witness ==
    /\ notice = "add:Success!"
    /\ Size = catalog + 1
    /\ localProducts.items[Size].price = NaN
    /\ storage.kind = "json"
    /\ Len(storage.json) = Size
    /\ storage.json[Size].price = JsonNull

(* C3: no two records of the in-memory collection share an identifier. *)
C3_UniqueIds ==
    localProducts.type = "array" =>
        \A i, j \in DOMAIN localProducts.items :
            localProducts.items[i].id = localProducts.items[j].id => i = j

(* Two overlapping adds: the one issued second has been applied while the *)
(* one issued first is still in flight.                                   *)
C3_Witness ==
    /\ steps = 2
    /\ session = 0
    /\ Size = catalog + 1
    /\ \E k \in Slots : inflight[k].op = "add" /\ inflight[k].seq = 1

(* C4: the record appended by a successful add has the identifier one     *)
(* above the largest identifier present when the response is processed,   *)
(* or 101 when the collection is empty then.                              *)
C4_SyntheticId ==
    [][ (Settled /\ notice' = "add:Success!" /\ Size' = Size + 1) =>
            LET newId == localProducts'.items[Size'].id
                old == localProducts.items
            IN IF old = << >>
               THEN newId = 101
               ELSE /\ \E i \in DOMAIN old : newId = old[i].id + 1
                    /\ \A i \in DOMAIN old : old[i].id < newId ]_vars

(* An add onto identifiers {2}: the new record got 3. *)
C4_Witness ==
    /\ notice = "add:Success!"
    /\ localProducts.type = "array"
    /\ IdSeq(localProducts.items) = << 2, 3 >>

(* C5: a failed remote update (no response, or a status other than the    *)
(* accepted 200) leaves the in-memory collection and the cache as they    *)
(* were, as does issuing the request, and reports a failure.              *)
C5_UpdateFailureAtomic ==
    [][ /\ \A k \in Slots, outcome \in Outcomes \ {200} :
               UpdateSettles(k, outcome) =>
                   /\ localProducts' = localProducts
                   /\ storage' = storage
                   /\ notice' \in {"update:Error", "update:Update Failed"}
        /\ (editingProductId # null /\ \E priceText \in PriceTexts : Submit(priceText)) =>
               /\ localProducts' = localProducts
               /\ storage' = storage ]_vars

(* An update of a record was refused and the edit is still open. *)
C5_Witness ==
    /\ notice = "update:Update Failed"
    /\ editingProductId # null
    /\ localProducts.type = "array"
    /\ FindIndex(localProducts.items, editingProductId) # -1

(* C6: a failed remote create leaves the collection and the cache as they *)
(* were and reports failure; a failed remote delete reports failure and   *)
(* the record stays in the collection and in the cache.                   *)
C6_AddDeleteFailure ==
    [][ /\ \A k \in Slots, outcome \in {NetworkError, 500} :
               AddSettles(k, outcome) =>
                   /\ localProducts' = localProducts
                   /\ storage' = storage
                   /\ notice' \in {"add:Error", "add:Add Failed"}
        /\ \A k \in Slots, outcome \in Outcomes \ {200} :
               DeleteSettles(k, outcome) =>
                   /\ localProducts' = localProducts
                   /\ storage' = storage
                   /\ notice' \in {"delete:Error", "delete:Delete Failed"} ]_vars

(* A delete was refused and the record is still in memory and in the cache. *)
C6_Witness ==
    /\ notice = "delete:Delete Failed"
    /\ steps = 1
    /\ Size = catalog
    /\ storage = Stringify(localProducts)

(* The list request of fetchProducts fails: fetch rejects, or the         *)
(* response read has a status outside 200..299.                           *)
ListFailed ==
    \/ ListFetchSettles(NetworkError)
    \/ /\ fetchPc = "awaitJson"
       /\ ~Ok(listStatus)
       /\ \E body \in ListBodies(listStatus) : ListJsonSettles(body)

(* C7: a failed list request during startup reports a load error, leaves  *)
(* the in-memory collection empty and leaves the cache as it was.          *)
C7_ListFailure ==
    [][ ListFailed =>
            /\ banner' = "error"
            /\ localProducts' = Arr(<< >>)
            /\ storage' = storage ]_vars

(* C8: once hydrated, the effects of add, update and delete reach the     *)
(* collection in the order in which the user triggered them: no request   *)
(* applies its effect while a request issued before it is still pending.  *)
C8_EffectsInInitiationOrder ==
    [][ \A k \in Slots :
            ( /\ fetchPc = "done"
              /\ Settled
              /\ inflight[k].op # "idle"
              /\ inflight'[k].op = "idle"
              /\ localProducts' # localProducts )
                => \A j \in Busy : inflight[k].seq <= inflight[j].seq ]_vars

(* C9: add, update and delete are entered only from Ready: no request of  *)
(* theirs is pending before hydration has completed.                      *)
C9_MutationsOnlyWhenReady ==
    Busy # {} => Phase = "Ready"

(* A collection as JSON keeps it: what is read back after it was saved. *)
AsStored(value) == Parse(Stringify(value))

(* C10: after a reload the hydrated collection equals the collection at   *)
(* the end of the previous page load (records compared as JSON keeps      *)
(* them), when that page load hydrated without error and every add,       *)
(* update and delete in it succeeded.                                     *)
C10_PersistsAcrossSessions ==
    ( /\ session >= 1
      /\ prevEnd.type = "array"
      /\ fetchPc = "done"
      /\ clean
      /\ notice = "none"
      /\ Busy = {} )
        => localProducts = AsStored(prevEnd)

(* C11: a successful list response at startup makes the in-memory         *)
(* collection the response records in response order, stores the same     *)
(* records in the cache and displays their number.                        *)
C11_HydrationFromList ==
    [][ ( /\ fetchPc = "awaitJson"
          /\ Ok(listStatus)
          /\ fetchPc' = "done"
          /\ session' = session )
            => /\ localProducts' = Arr(ApiProducts)
               /\ storage'.kind = "json"
               /\ storage'.json = ApiProducts
               /\ productCount' = catalog
               /\ banner' = "none" ]_vars

(* The first page load has hydrated ListLimit records from the list. *)
C11_Witness ==
    /\ session = 0
    /\ steps = 0
    /\ fetchPc = "done"
    /\ catalog = ListLimit
    /\ Size = ListLimit
    /\ productCount = ListLimit
    /\ storage.kind = "json"
    /\ Len(storage.json) = ListLimit

(* The request of slot k settles in this step. *)
Settles(k, op) ==
    /\ Settled
    /\ inflight[k].op = op
    /\ inflight'[k].op = "idle"

(* C12: a successful add appends exactly one record, with the submitted   *)
(* fields and a new identifier, at the end of the collection; the earlier *)
(* records keep their place and the cache holds the new record.           *)
C12_AddAppendsOne ==
    [][ \A k \in Slots :
            (Settles(k, "add") /\ notice' = "add:Success!") =>
                LET old == localProducts.items
                    new == localProducts'.items
                    f   == inflight[k].fields
                    n   == Len(old) + 1
                IN /\ Len(new) = n
                   /\ \A i \in DOMAIN old : new[i] = old[i]
                   /\ new[n].id \notin Ids(old)
                   /\ new[n].title = f.title
                   /\ new[n].description = f.description
                   /\ new[n].price = f.price
                   /\ new[n].category = f.category
                   /\ new[n].thumbnail = f.thumbnail
                   /\ storage'.kind = "json"
                   /\ Len(storage'.json) = n
                   /\ storage'.json[n].id = new[n].id
                   /\ storage'.json[n].title = f.title ]_vars

(* A record with a numeric price was appended behind the listed ones. *)
C12_Witness ==
    /\ notice = "add:Success!"
    /\ catalog = ListLimit
    /\ Size = ListLimit + 1
    /\ localProducts.items[1].id = 1
    /\ localProducts.items[Size].title = "Pen"
    /\ localProducts.items[Size].price = Num(2)

(* C13: a successful update of an identifier in the collection replaces   *)
(* that record in place by the submitted values under the same            *)
(* identifier; number, identifiers, order and the other records stay, and *)
(* the cache holds the new values.                                        *)
C13_UpdateInPlace ==
    [][ \A k \in Slots :
            ( /\ Settles(k, "update")
              /\ notice' = "update:Success!"
              /\ FindIndex(localProducts.items, inflight[k].id) # -1 ) =>
                LET old == localProducts.items
                    new == localProducts'.items
                    f   == inflight[k].fields
                    x   == inflight[k].id
                IN /\ Len(new) = Len(old)
                   /\ \A i \in DOMAIN old :
                         /\ new[i].id = old[i].id
                         /\ old[i].id # x => new[i] = old[i]
                         /\ old[i].id = x =>
                               /\ new[i].title = f.title
                               /\ new[i].description = f.description
                               /\ new[i].price = f.price
                               /\ new[i].category = f.category
                               /\ new[i].thumbnail = f.thumbnail
                               /\ storage'.json[i].title = f.title
                   /\ storage'.kind = "json"
                   /\ Len(storage'.json) = Len(new) ]_vars

(* The first of two records was updated and is still the first. *)
C13_Witness ==
    /\ notice = "update:Success!"
    /\ Size = 2
    /\ IdSeq(localProducts.items) = << 1, 2 >>
    /\ localProducts.items[1].title = "Pen"
    /\ localProducts.items[2].title = "Phone"
    /\ storage.kind = "json"
    /\ storage.json[1].title = "Pen"

(* A successful delete of x: no record of x is left, the other records    *)
(* are unchanged and in their order, and the cache is that collection.    *)
DeleteFrame(k) ==
    LET old == localProducts.items
        new == localProducts'.items
        x   == inflight[k].id
        kept == { i \in DOMAIN old : old[i].id # x }
    IN /\ x \notin Ids(new)
       /\ Len(new) = Cardinality(kept)
       /\ \A i \in kept :
             new[Cardinality({ j \in kept : j <= i })] = old[i]
       /\ storage'.kind = "json"
       /\ Len(storage'.json) = Len(new)
       /\ IdSeq(storage'.json) = IdSeq(new)

(* The deleted record of slot k carries the largest identifier. *)
DeletesMax(k) ==
    /\ inflight[k].id \in Ids(localProducts.items)
    /\ \A i \in DOMAIN localProducts.items :
           localProducts.items[i].id <= inflight[k].id

(* C14 as claimed: after a successful delete of x the collection and the  *)
(* cache are without x, and when x was the largest identifier the next    *)
(* add gets x again.                                                      *)
C14_DeletedMaxIdReused ==
    [][ \A k \in Slots :
            (Settles(k, "delete") /\ notice' = "delete:Deleted!") =>
                /\ DeleteFrame(k)
                /\ DeletesMax(k) => nextId(localProducts'.items) = inflight[k].id ]_vars

(* C14 as amended: after a successful delete of x the collection and the  *)
(* cache are without x, the other records unchanged and in order; the     *)
(* next identifier is one above the largest remaining identifier, or 101  *)
(* when nothing remains, so the deleted largest identifier x is used      *)
(* again exactly when x - 1 remains or x = 101 was the only record.       *)
C14_DeleteThenNextId ==
    [][ \A k \in Slots :
            (Settles(k, "delete") /\ notice' = "delete:Deleted!") =>
                LET new  == localProducts'.items
                    x    == inflight[k].id
                    next == nextId(new)
                IN /\ DeleteFrame(k)
                   /\ new = << >> => next = 101
                   /\ new # << >> =>
                         /\ \E i \in DOMAIN new : next = new[i].id + 1
                         /\ \A i \in DOMAIN new : new[i].id < next
                   /\ DeletesMax(k) =>
                         (next = x <=> \/ (x - 1) \in Ids(new)
                                       \/ new = << >> /\ x = 101) ]_vars

(* The record with the largest identifier 2 was deleted and the next add  *)
(* got the identifier 2 again.                                            *)
C14_Witness ==
    /\ notice = "add:Success!"
    /\ catalog = 2
    /\ steps = 2
    /\ session = 0
    /\ IdSeq(localProducts.items) = << 1, 2 >>
    /\ localProducts.items[2].title = "Pen"

Reports(op) ==
    IF op = "add" THEN {"add:Success!", "add:Add Failed", "add:Error"}
    ELSE IF op = "update" THEN {"update:Success!", "update:Update Failed", "update:Error"}
    ELSE {"delete:Deleted!", "delete:Delete Failed", "delete:Error"}

FailureReports(op) == Reports(op) \ {"add:Success!", "update:Success!", "delete:Deleted!"}

(* C15: every add, update and delete that settles ends with one report of *)
(* its own, success or failure; no response at all and a status outside   *)
(* the success range both end in a failure report.                        *)
C15_OneReportedOutcome ==
    [][ \A k \in Slots :
            /\ \A op \in {"add", "update", "delete"} :
                   Settles(k, op) => notice' \in Reports(op)
            /\ \A outcome \in {NetworkError, 500} :
                   /\ AddSettles(k, outcome) => notice' \in FailureReports("add")
                   /\ UpdateSettles(k, outcome) => notice' \in FailureReports("update")
                   /\ DeleteSettles(k, outcome) => notice' \in FailureReports("delete") ]_vars

(* A rejected fetch of addProduct ended as a reported failure. *)
C15_Witness ==
    /\ notice = "add:Error"
    /\ steps = 1
    /\ Busy = {}
    /\ fetchPc = "done"
    /\ localProducts.type = "array"

(* C16: when every request sent is eventually answered or fails, every    *)
(* started hydration, add, update and delete eventually completes: from   *)
(* any state with hydration unfinished or a request pending, a state with *)
(* the controller in Ready and nothing pending is reached.                *)
C16_EventuallyReady ==
    (Phase # "Ready" \/ Busy # {}) ~> (Phase = "Ready" /\ Busy = {})

(* The list request failed and an add was refused: nothing is pending and *)
(* the controller is in Ready.                                            *)
C16_Witness ==
    /\ Phase = "Ready"
    /\ banner = "error"
    /\ notice = "add:Add Failed"
    /\ Busy = {}

(* C17: reading the cache gives the stored collection when the value      *)
(* parses as JSON; a stored value that is not JSON is treated as absent   *)
(* and raises nothing, so startup sends the list request as for an absent *)
(* cache.                                                                 *)
C17_MalformedCacheIsAbsent ==
    [][ (fetchPc = "notStarted" /\ fetchPc' # "notStarted") =>
            /\ CacheNonEmpty =>
                  /\ localProducts' = Arr(storage.json)
                  /\ fetchPc' = "done"
            /\ storage.kind = "undefined" =>
                  /\ fetchPc' = "awaitFetch"
                  /\ listRequests' = 1
                  /\ banner' = "spinner" ]_vars

(* A collection of the data model: every price is a number. *)
ValidCollection(value) ==
    /\ value.type = "array"
    /\ \A i \in DOMAIN value.items : value.items[i].price[1] = "number"

C20_CacheLifecycle ==
    [][ /\ (storage.kind = "absent" /\ storage'.kind # "absent") =>
              /\ fetchPc = "awaitJson"
              /\ Ok(listStatus)
              /\ fetchPc' = "done"
        /\ (storage.kind # "absent" /\ storage' # storage) =>
              \E k \in Slots, op \in {"add", "update", "delete"} : Settles(k, op)
        /\ storage.kind # "absent" => storage'.kind # "absent" ]_vars

(* C21: opening an edit takes the record from the in-memory collection:   *)
(* the step sends no request and changes neither the collection nor the   *)
(* cache; edit mode for x is entered only when a record with identifier x *)
(* is in the collection, and a 'not found' report leaves the mode as it   *)
(* was.                                                                   *)
C21_EditIsLocal ==
    [][ /\ (editingProductId' # null /\ editingProductId' # editingProductId) =>
              /\ UNCHANGED << localProducts, storage, inflight, listRequests, steps >>
              /\ localProducts.type = "array"
              /\ FindIndex(localProducts.items, editingProductId') # -1
        /\ (notice' = "edit:Product Not Found" /\ notice' # notice) =>
              UNCHANGED << localProducts, storage, inflight, listRequests,
                           editingProductId, modalOpen >> ]_vars

(* An edit of the second record is open and nothing was sent for it. *)
C21_Witness ==
    /\ editingProductId = 2
    /\ modalOpen
    /\ Size = 2
    /\ Busy = {}
    /\ listRequests = 1
    /\ steps = 0

(* C22: each invocation of add, update or delete sends exactly one        *)
(* request; the step that processes its response or its failure sends     *)
(* none, so nothing is retried; one startup sends at most one list        *)
(* request.                                                               *)
C22_OneRequestNoRetry ==
    [][ /\ (session' = session /\ steps' = steps + 1) =>
              \E k \in FreeSlots :
                  /\ Busy' = Busy \cup {k}
                  /\ inflight'[k].seq = steps'
                  /\ \A j \in Slots \ {k} : inflight'[j] = inflight[j]
        /\ (session' = session /\ steps' = steps) => Busy' \subseteq Busy
        /\ \A k \in Slots :
              (Settled /\ inflight[k].op # "idle" /\ inflight'[k].op = "idle") =>
                  /\ Busy' = Busy \ {k}
                  /\ \A j \in Slots \ {k} : inflight'[j] = inflight[j]
                  /\ UNCHANGED listRequests
        /\ listRequests' <= 1 ]_vars

(* Two requests were sent in this page load, the last one a delete that   *)
(* failed, and none is pending.                                           *)
C22_Witness ==
    /\ notice = "delete:Delete Failed"
    /\ steps = 2
    /\ Busy = {}
    /\ listRequests = 1
    /\ Size = 2

(* C23: whenever an update reports success for identifier x, the          *)
(* collection afterwards holds a record with identifier x and the         *)
(* submitted field values, and the cache holds the same collection.       *)
C23_UpdateSuccessHasRecord ==
    [][ \A k \in Slots :
            (Settles(k, "update") /\ notice' = "update:Success!") =>
                /\ \E i \in DOMAIN localProducts'.items :
                       localProducts'.items[i] = Product(inflight[k].id, inflight[k].fields)
                /\ getLocalProducts(storage') = AsStored(localProducts') ]_vars

(* C24: when the response of an update is processed and no record of the  *)
(* collection has its identifier, the collection, the cache, the cards    *)
(* and the count stay as they were: the record is not created again.      *)
C24_UpdateOfAbsentIsNoOp ==
    [][ \A k \in Slots :
            ( /\ Settles(k, "update")
              /\ localProducts.type = "array"
              /\ inflight[k].id \notin Ids(localProducts.items) ) =>
                UNCHANGED << localProducts, storage, cards, productCount >> ]_vars

(* A delete and then an update of the same record were answered: one      *)
(* record is gone and no record carries the submitted values.             *)
C24_Witness ==
    /\ session = 0
    /\ steps = 2
    /\ Busy = {}
    /\ notice = "update:Success!"
    /\ localProducts.type = "array"
    /\ Size = catalog - 1
    /\ Size = 1
    /\ \A i \in DOMAIN localProducts.items : localProducts.items[i].title = ApiFields.title
    /\ getLocalProducts(storage) = localProducts

(* C25: when the response of a delete is processed and no record of the   *)
(* collection has its identifier, the records and their order, the cards  *)
(* and the content of the cache are what they were before.                *)
C25_DeleteOfAbsentIsNoOp ==
    [][ \A k \in Slots :
            ( /\ Settles(k, "delete")
              /\ localProducts.type = "array"
              /\ inflight[k].id \notin Ids(localProducts.items) ) =>
                UNCHANGED << localProducts, storage, cards, productCount >> ]_vars

(* The state reached when the Delete button of the first of two records   *)
(* is clicked twice and both requests are accepted: one record is gone.   *)
C25_Witness ==
    /\ session = 0
    /\ steps = 2
    /\ Busy = {}
    /\ clean
    /\ notice = "delete:Deleted!"
    /\ cards = << 2 >>
    /\ localProducts = Arr(<< Product(2, ApiFields) >>)
    /\ storage = Stringify(localProducts)

(* C26: update and delete take a response as success exactly when its     *)
(* status is 200, add when its status is any 2xx: an update or delete     *)
(* answered with another 2xx status reports failure and leaves collection *)
(* and cache unchanged, an add answered 201 inserts the record.           *)
C26_SuccessStatuses ==
    [][ \A k \in Slots, status \in Statuses :
            /\ UpdateSettles(k, status) =>
                  IF status = 200
                  THEN localProducts.type = "array" => notice' = "update:Success!"
                  ELSE /\ notice' = "update:Update Failed"
                       /\ UNCHANGED << localProducts, storage >>
            /\ DeleteSettles(k, status) =>
                  IF status = 200
                  THEN localProducts.type = "array" => notice' = "delete:Deleted!"
                  ELSE /\ notice' = "delete:Delete Failed"
                       /\ UNCHANGED << localProducts, storage >>
            /\ AddSettles(k, status) =>
                  IF Ok(status)
                  THEN localProducts.type = "array" =>
                          /\ notice' = "add:Success!"
                          /\ Len(localProducts'.items) = Len(localProducts.items) + 1
                  ELSE /\ notice' = "add:Add Failed"
                       /\ UNCHANGED << localProducts, storage >> ]_vars

(* The state reached when an update of the first record is answered 201:  *)
(* the failure is reported, the edit stays open and the listed records    *)
(* are as they were.                                                      *)
C26_Witness ==
    /\ session = 0
    /\ steps = 1
    /\ Busy = {}
    /\ notice = "update:Update Failed"
    /\ editingProductId = 1
    /\ modalOpen
    /\ localProducts = Arr(ApiProducts)
    /\ storage = Stringify(localProducts)

(* C27: startup from a cache holding a non-empty collection sets the      *)
(* in-memory collection to the cached records in the cached order, shows  *)
(* one card for each, and leaves the content of the cache as it was.      *)
C27_HydrationFromCache ==
    [][ (fetchPc = "notStarted" /\ fetchPc' # "notStarted" /\ CacheNonEmpty) =>
            /\ localProducts'.type = "array"
            /\ Len(localProducts'.items) = Len(storage.json)
            /\ \A i \in DOMAIN storage.json : localProducts'.items[i] = storage.json[i]
            /\ cards' = IdSeq(storage.json)
            /\ productCount' = Len(storage.json)
            /\ storage' = storage ]_vars

(* A second page load has hydrated from the cache the listed records and  *)
(* the record added in the first one.                                     *)
C27_Witness ==
    /\ session = 1
    /\ fetchPc = "done"
    /\ listRequests = 0
    /\ banner = "none"
    /\ storage.kind = "json"
    /\ Size = catalog + 1
    /\ Size = 3
    /\ localProducts.items[1].id = 1
    /\ localProducts.items[3].title = "Pen"
    /\ localProducts = Arr(storage.json)
    /\ productCount = 3

(* C28: a form submit dispatches on editingProductId as it is at that     *)
(* moment: when it is not null the request sent is an update of exactly   *)
(* that identifier, when it is null the request sent is an add; the       *)
(* submitted values are those of the form.                                *)
C28_SubmitDispatch ==
    [][ \A k \in Slots :
            (inflight[k].op = "idle" /\ inflight'[k].op \in {"add", "update"}) =>
                /\ modalOpen
                /\ UNCHANGED editingProductId
                /\ \E priceText \in PriceTexts : inflight'[k].fields = FormFields(priceText)
                /\ IF editingProductId # null
                   THEN /\ inflight'[k].op = "update"
                        /\ inflight'[k].id = editingProductId
                   ELSE /\ inflight'[k].op = "add"
                        /\ inflight'[k].id = null ]_vars

(* An add was submitted, then an edit of the second record: both requests *)
(* are pending.                                                           *)
C28_Witness ==
    /\ modalOpen
    /\ editingProductId = 2
    /\ \E k \in Slots : inflight[k].op = "add" /\ inflight[k].seq = 1
    /\ \E k \in Slots :
           /\ inflight[k].op = "update"
           /\ inflight[k].seq = 2
           /\ inflight[k].id = 2
           /\ inflight[k].fields = FormFields("2")

(* C29: editingProductId becomes non-null only when an edit is opened on  *)
(* an identifier found in the collection; a successful update, a          *)
(* successful add and the closing of the modal reset it to null; a failed *)
(* update or add leaves it as it was, so that after a failed update of    *)
(* the record being edited the form is still open on that identifier.     *)
C29_EditModeFlag ==
    [][ /\ (editingProductId' # null /\ editingProductId' # editingProductId) =>
              /\ ~modalOpen /\ modalOpen'
              /\ UNCHANGED inflight
              /\ FindIndex(localProducts.items, editingProductId') # -1
        /\ \A k \in Slots :
              /\ (Settles(k, "update") /\ notice' = "update:Success!") =>
                     editingProductId' = null
              /\ (Settles(k, "add") /\ notice' = "add:Success!") =>
                     editingProductId' = null
              /\ (Settles(k, "update") /\ notice' \in FailureReports("update")) =>
                     /\ UNCHANGED << editingProductId, modalOpen >>
                     /\ (modalOpen /\ editingProductId = inflight[k].id) =>
                            (modalOpen' /\ editingProductId' = inflight[k].id)
              /\ (Settles(k, "add") /\ notice' \in FailureReports("add")) =>
                     UNCHANGED << editingProductId, modalOpen >>
        /\ (session' = session /\ modalOpen /\ ~modalOpen') => editingProductId' = null ]_vars

(* An update of the second record failed and was submitted again: the     *)
(* second request is for the same identifier.                             *)
C29_Witness ==
    /\ notice = "update:Update Failed"
    /\ modalOpen
    /\ editingProductId = 2
    /\ \E k \in Slots :
           /\ Busy = {k}
           /\ inflight[k].op = "update"
           /\ inflight[k].id = 2
           /\ inflight[k].seq = 2

(* C30: whenever editingProductId is not null, a record with that         *)
(* identifier is in the in-memory collection.                             *)
C30_PendingEditHasRecord ==
    editingProductId # null =>
        /\ localProducts.type = "array"
        /\ editingProductId \in Ids(localProducts.items)

(* One operation applied to a collection on its own: an add appends the   *)
(* record under one plus the largest identifier (the baseline when there  *)
(* is none), an update substitutes the record of its identifier, a delete *)
(* drops it.                                                              *)
Apply(op, id, fields, items) ==
    IF op = "add"
    THEN Append(items, Product(IF items = << >> THEN baselineId
                                ELSE MaxOf(Ids(items)) + 1, fields))
    ELSE IF op = "update"
    THEN [i \in DOMAIN items |->
             IF items[i].id = id THEN Product(id, fields) ELSE items[i]]
    ELSE SelectSeq(items, LAMBDA r : r.id # id)

(* C31: once hydration has completed, every add, update or delete that    *)
(* reports success, whatever other requests are pending, turns the        *)
(* collection into the result of applying that one operation to the       *)
(* collection as the previous response left it, and the cache holds that  *)
(* result: the effects are those of the successful operations applied one *)
(* at a time in the order their responses are processed.                  *)
C31_NoLostEffect ==
    [][ \A k \in Slots, op \in {"add", "update", "delete"} :
            ( /\ fetchPc = "done"
              /\ Settles(k, op)
              /\ notice' \in Reports(op) \ FailureReports(op) ) =>
                /\ localProducts' =
                       Arr(Apply(op, inflight[k].id, inflight[k].fields, localProducts.items))
                /\ storage' = Stringify(localProducts') ]_vars

(* The state reached when an update of the first record and an add are   *)
(* pending together and both are answered with success: the collection    *)
(* and the cache hold the effect of both.                                 *)
C31_Witness ==
    /\ session = 0
    /\ fetchPc = "done"
    /\ steps = 2
    /\ Busy = {}
    /\ clean
    /\ notice = "add:Success!"
    /\ Size = catalog + 1
    /\ localProducts.items[1] = Product(1, FormFields("2"))
    /\ localProducts.items[Size] = Product(catalog + 1, FormFields("2"))
    /\ storage = Stringify(localProducts)

(* C32: a record that was added stays in the in-memory collection for the *)
(* rest of the page load, and in the cache, until a delete of its         *)
(* identifier succeeds; the completion of the startup list request does   *)
(* not discard it.                                                        *)
C32_AddedRecordStays ==
    [][ \A x \in CardIds :
            (x > catalog /\ x \in Ids(localProducts.items)) =>
                \/ \E k \in Slots :
                       /\ Settles(k, "delete")
                       /\ inflight[k].id = x
                       /\ notice' = "delete:Deleted!"
                \/ /\ session' = session => x \in Ids(localProducts'.items)
                   /\ storage'.kind = "json"
                   /\ \E i \in DOMAIN storage'.json : storage'.json[i].id = x ]_vars

(* C33: whenever hydration is over and no request is pending, the         *)
(* displayed cards carry exactly the identifiers of the in-memory         *)
(* collection, one card for each record, and the displayed count is the   *)
(* number of records.                                                     *)
C33_ViewMatchesCollection ==
    (fetchPc = "done" /\ Busy = {} /\ localProducts.type = "array") =>
        /\ { cards[i] : i \in DOMAIN cards } = Ids(localProducts.items)
        /\ Len(cards) = Len(localProducts.items)
        /\ productCount = Len(localProducts.items)

(* C34: when the cache write raises during an add, update or delete, the  *)
(* operation reports a failure and the in-memory collection and the cache *)
(* are what they were before: no reported failure leaves the collection   *)
(* changed.                                                               *)
C34_RefusedWriteLeavesCollection ==
    [][ \A k \in Slots, op \in {"add", "update", "delete"} :
            (Settles(k, op) /\ notice' \in FailureReports(op)) =>
                UNCHANGED << localProducts, storage >> ]_vars

(* C35: every record of the in-memory collection has a price that is a    *)
(* number and is not negative, after any adds and updates, whatever text  *)
(* the price field of the form held.                                      *)
C35_PricesNonNegative ==
    localProducts.type = "array" =>
        \A i \in DOMAIN localProducts.items :
            /\ localProducts.items[i].price[1] = "number"
            /\ localProducts.items[i].price[2] >= 0

====
